---- MODULE Spec2Model ----
(***************************************************************************)
(* remit-lens: the remittance comparison engine of src/remit/compare.py.   *)
(*                                                                         *)
(* Numbers.  The program computes in binary floating point and rounds to a *)
(* fixed number of decimals.  The model keeps every quantity as an integer *)
(* count of a decimal unit and computes exactly:                           *)
(*   money (send_amount, fee, receive_amount)   cents            (10^-2)   *)
(*   percentages (spread_pct, fee_pct, true cost) hundredths of 1% (10^-2) *)
(*   the mid-market rate as the rate source returns it            (10^-5)  *)
(*   rates as a Quote stores them                                 (10^-4)  *)
(* Products that do not fit TLC's 32-bit integers are carried as sequences *)
(* of decimal digits, least significant first.  round(x, n) is round half  *)
(* to even on the exact value.  Where the exact value is a decimal tie the *)
(* program's float lies a representation error to one side of it and      *)
(* round() follows that side, so there the program may keep the other      *)
(* neighbour; the input sets below are those on which every field a Quote  *)
(* stores, and its true cost, are the program's.  The derived effective    *)
(* rate is a quotient of two stored fields and meets ties on those inputs, *)
(* so kes_per_dollar_effective is the set of both neighbours there.        *)
(***************************************************************************)
EXTENDS Integers, Sequences, FiniteSets, TLC

VARIABLES
    pc,               \* position of the compare invocation
    send_amount,      \* compare's arguments
    from_currency,
    to_currency,
    providers,
    live,             \* what the live rate feed answered (get_mid_market_rate's locals)
    rate_calls,       \* calls of the rate source made by this invocation
    mid_rate,         \* compare's local mid_rate
    active_providers, \* compare's local active_providers, the part not yet iterated
    quotes,           \* compare's local quotes
    result,           \* the Comparison returned (or constructed directly), <<>> if none
    view,             \* the last derived view read from the Comparison
    catalog,          \* the module-level dict _PROVIDER_PROFILES
    calls             \* the frames of the compare invocations a concurrent host runs

vars == <<pc, send_amount, from_currency, to_currency, providers, live, rate_calls,
          mid_rate, active_providers, quotes, result, view, catalog, calls>>

\* The state of one invocation followed step by step.
callvars == <<pc, send_amount, from_currency, to_currency, providers, live, rate_calls,
              mid_rate, active_providers, quotes, result, view>>

\* The state a host shares among invocations.
hostvars == <<catalog, calls>>

(***************************************************************************)
(* Decimal arithmetic                                                      *)
(***************************************************************************)

RECURSIVE Pow10(_)
Pow10(k) == IF k = 0 THEN 1 ELSE 10 * Pow10(k - 1)

\* round(n / d) for integers n and d > 0, ties to the even neighbour.
RoundHalfEven(n, d) ==
    LET q == n \div d
        r == n % d
    IN  IF 2 * r < d THEN q
        ELSE IF 2 * r > d THEN q + 1
        ELSE IF q % 2 = 0 THEN q ELSE q + 1

\* The decimal digits of a natural number, least significant first.
RECURSIVE Digits(_)
Digits(n) == IF n = 0 THEN <<>> ELSE <<n % 10>> \o Digits(n \div 10)

RECURSIVE DigitsToInt(_)
DigitsToInt(d) == IF d = <<>> THEN 0 ELSE Head(d) + 10 * DigitsToInt(Tail(d))

\* Column k (from 0) of the schoolbook product of a and b.
RECURSIVE MulColumn(_, _, _, _)
MulColumn(a, b, k, i) ==
    IF i > Len(a) THEN 0
    ELSE (IF k + 2 - i >= 1 /\ k + 2 - i <= Len(b) THEN a[i] * b[k + 2 - i] ELSE 0)
         + MulColumn(a, b, k, i + 1)

RECURSIVE MulCarry(_, _, _, _)
MulCarry(a, b, k, carry) ==
    IF k >= Len(a) + Len(b) THEN Digits(carry)
    ELSE LET s == carry + MulColumn(a, b, k, 1)
         IN  <<s % 10>> \o MulCarry(a, b, k + 1, s \div 10)

\* The product of two digit sequences.
MulDigits(a, b) == IF a = <<>> \/ b = <<>> THEN <<>> ELSE MulCarry(a, b, 0, 0)

RECURSIVE AllZero(_)
AllZero(d) == d = <<>> \/ (Head(d) = 0 /\ AllZero(Tail(d)))

\* The digit sequence d with its k lowest digits rounded away (half to even),
\* as an integer.
RoundDigits(d, k) ==
    IF k = 0 THEN DigitsToInt(d)
    ELSE IF Len(d) < k THEN 0
    ELSE LET q     == DigitsToInt(SubSeq(d, k + 1, Len(d)))
             top   == d[k]
             below == SubSeq(d, 1, k - 1)
         IN  IF top < 5 THEN q
             ELSE IF top > 5 \/ ~AllZero(below) THEN q + 1
             ELSE IF q % 2 = 0 THEN q ELSE q + 1

(***************************************************************************)
(* Rounding points of the program and the units of the model               *)
(***************************************************************************)

MONEY_DP == 2     \* round(receive_amount, 2), round(fee, 2)
RATE_DP == 4      \* round(their_rate, 4), round(mid_rate, 4)
PCT_DP == 2       \* round(p["spread_pct"], 2), round(fee_percent + spread_percent, 2)
KES_DP == 2       \* round(self.receive_amount / net_send, 2)

\* The catalog and the inputs give money and percentages to two decimals; the
\* rate source's answer is kept to one decimal more than a Quote keeps.
InMoneyDp == MONEY_DP
InPctDp == PCT_DP
MidRateDp == RATE_DP + 1

\* x / 100 of a percentage adds two decimals.
FractionDp == InPctDp + 2
\* fee = send_amount * fee_pct / 100 (+ fee_fixed)
FeeDp == InMoneyDp + FractionDp
\* their_rate = mid_rate * (1 - spread_pct / 100)
TheirRateDp == MidRateDp + FractionDp
\* receive_amount = net_send * their_rate
ReceiveDp == FeeDp + TheirRateDp

None == <<>>

(***************************************************************************)
(* Exchange rate fetching                                                  *)
(***************************************************************************)

FALLBACKS ==
    (<<"USD", "KES">> :> 12950000) @@
    (<<"GBP", "KES">> :> 16420000) @@
    (<<"EUR", "KES">> :> 14080000) @@
    (<<"CAD", "KES">> :> 9530000) @@
    (<<"AED", "KES">> :> 3525000) @@
    (<<"AUD", "KES">> :> 8460000)

\* FALLBACKS.get((from_currency, to_currency), 0.0)
FallbackRate(from, to) ==
    IF <<from, to>> \in DOMAIN FALLBACKS THEN FALLBACKS[<<from, to>>] ELSE 0

\* The live call ends in an exception (urlopen, read or json.loads raising,
\* data["rates"] missing) or in a value for rate = data["rates"].get(to_currency).
LiveRaises(o) == o.kind \in {"transport_error", "timeout", "malformed_body", "no_rates"}

\* rate and isinstance(rate, (int, float)) and rate > 0
LiveRateUsable(o) == o.kind = "number" /\ o.rate # 0 /\ o.rate > 0

\* Mutant: any number the feed gives is returned, its sign unchecked.
ResolveRate_NoSignCheck(o, from, to) ==
    IF o.kind = "number" /\ o.rate # 0 THEN o.rate ELSE FallbackRate(from, to)

\* The value get_mid_market_rate returns when the live call ended in o.
ResolveRate(o, from, to) ==
    IF ~LiveRaises(o) /\ LiveRateUsable(o) THEN o.rate ELSE FallbackRate(from, to)

(***************************************************************************)
(* Provider rate tables                                                    *)
(***************************************************************************)

ProviderNames ==
    <<"Wise", "Remitly", "WorldRemit", "Western Union", "Sendwave", "Mukuru", "LemFi">>

PROVIDER_PROFILES ==
    ("Wise" :> [spread_pct |-> 55, fee_type |-> "percent+fixed", fee_pct |-> 41,
                fee_fixed |-> 0, time |-> "minutes",
                delivery |-> <<"M-Pesa", "Bank deposit">>]) @@
    ("Remitly" :> [spread_pct |-> 120, fee_type |-> "tiered", fee_pct |-> 0,
                   fee_fixed |-> 399, time |-> "instant",
                   delivery |-> <<"M-Pesa", "Bank deposit">>]) @@
    ("WorldRemit" :> [spread_pct |-> 180, fee_type |-> "fixed", fee_pct |-> 0,
                      fee_fixed |-> 399, time |-> "minutes",
                      delivery |-> <<"M-Pesa", "Bank deposit", "Cash pickup">>]) @@
    ("Western Union" :> [spread_pct |-> 350, fee_type |-> "tiered", fee_pct |-> 0,
                         fee_fixed |-> 500, time |-> "minutes",
                         delivery |-> <<"M-Pesa", "Cash pickup", "Bank deposit">>]) @@
    ("Sendwave" :> [spread_pct |-> 100, fee_type |-> "zero", fee_pct |-> 0,
                    fee_fixed |-> 0, time |-> "instant",
                    delivery |-> <<"M-Pesa">>]) @@
    ("Mukuru" :> [spread_pct |-> 210, fee_type |-> "fixed", fee_pct |-> 0,
                  fee_fixed |-> 450, time |-> "1-3 hours",
                  delivery |-> <<"Cash pickup", "Bank deposit">>]) @@
    ("LemFi" :> [spread_pct |-> 80, fee_type |-> "percent", fee_pct |-> 50,
                 fee_fixed |-> 0, time |-> "minutes",
                 delivery |-> <<"M-Pesa", "Bank deposit">>])

\* ", ".join(p["delivery"])
RECURSIVE Join(_)
Join(list) ==
    IF list = <<>> THEN ""
    ELSE IF Len(list) = 1 THEN list[1]
    ELSE list[1] \o ", " \o Join(Tail(list))

(***************************************************************************)
(* Quote                                                                   *)
(***************************************************************************)

\* Mutant: the sum is cut to 2 decimals instead of rounded.
true_cost_percent_Truncated(q) ==
    IF q.send_amount > 0
    THEN (q.fee * 100 * Pow10(PCT_DP) + q.spread_percent * q.send_amount) \div q.send_amount
    ELSE q.spread_percent

\* Quote.true_cost_percent, in hundredths of a percent.
true_cost_percent(q) ==
    IF q.send_amount > 0
    THEN RoundHalfEven(q.fee * 100 * Pow10(PCT_DP) + q.spread_percent * q.send_amount,
                       q.send_amount)
    ELSE RoundHalfEven(q.spread_percent, 1)

\* round(n / d) for n >= 0 and d > 0 as the program can compute it: the float
\* quotient of an exact decimal tie lies to one side of the tie, so there
\* round() returns one of the two neighbours.
RoundedQuotients(n, d) ==
    LET q == n \div d
        r == n % d
    IN  IF 2 * r < d THEN {q}
        ELSE IF 2 * r > d THEN {q + 1}
        ELSE {q, q + 1}

\* Mutant: the quotient is cut to 2 decimals instead of rounded.
kes_per_dollar_effective_Truncated(q) ==
    IF q.send_amount <= 0 THEN {0}
    ELSE IF q.send_amount - q.fee > 0
         THEN {(q.receive_amount * Pow10(KES_DP)) \div (q.send_amount - q.fee)}
    ELSE {0}

\* Quote.kes_per_dollar_effective, in hundredths: the values it can return.
kes_per_dollar_effective(q) ==
    IF q.send_amount <= 0 THEN {0}
    ELSE LET net_send == q.send_amount - q.fee
         IN  IF net_send > 0
             THEN RoundedQuotients(q.receive_amount * Pow10(KES_DP), net_send)
             ELSE {0}

(***************************************************************************)
(* Comparison engine: the body of compare's loop                           *)
(***************************************************************************)

\* Mutant: a tiered fee is computed as a percent fee.
Fee_TieredAsPercent(p, amount) ==
    IF p.fee_type = "zero" THEN 0
    ELSE IF p.fee_type \in {"percent", "tiered"} THEN amount * p.fee_pct
    ELSE IF p.fee_type = "percent+fixed"
         THEN amount * p.fee_pct + p.fee_fixed * Pow10(FractionDp)
    ELSE p.fee_fixed * Pow10(FractionDp)

\* The fee in from_currency, unrounded (FeeDp decimals).
Fee(p, amount) ==
    IF p.fee_type = "zero" THEN 0
    ELSE IF p.fee_type = "percent" THEN amount * p.fee_pct
    ELSE IF p.fee_type = "percent+fixed"
         THEN amount * p.fee_pct + p.fee_fixed * Pow10(FractionDp)
    ELSE p.fee_fixed * Pow10(FractionDp)

\* Mutant: the spread is added to the mid-market rate.
TheirRate_SpreadAdded(p, rate) ==
    MulDigits(Digits(rate), Digits(100 * Pow10(InPctDp) + p.spread_pct))

\* mid_rate * (1 - p["spread_pct"] / 100), unrounded (TheirRateDp decimals), as digits.
TheirRate(p, rate) ==
    MulDigits(Digits(rate), Digits(100 * Pow10(InPctDp) - p.spread_pct))

\* Mutant: the fee is added to the send amount.
NetSend_FeeAdded(p, amount) == amount * Pow10(FractionDp) + Fee(p, amount)

\* send_amount - fee (FeeDp decimals).
NetSend(p, amount) == amount * Pow10(FractionDp) - Fee(p, amount)

\* net_send * their_rate if net_send > 0 else 0.0, unrounded (ReceiveDp decimals).
ReceiveAmount(p, amount, rate) ==
    IF NetSend(p, amount) > 0
    THEN MulDigits(Digits(NetSend(p, amount)), TheirRate(p, rate))
    ELSE <<>>

\* Quote(...) for the profile p of provider name.
QuoteOf(p, name, amount, from, to, rate) ==
        [provider         |-> name,
         send_currency    |-> from,
         receive_currency |-> to,
         send_amount      |-> amount,
         receive_amount   |-> RoundDigits(ReceiveAmount(p, amount, rate),
                                          ReceiveDp - MONEY_DP),
         fee              |-> RoundHalfEven(Fee(p, amount), Pow10(FeeDp - MONEY_DP)),
         exchange_rate    |-> RoundDigits(TheirRate(p, rate), TheirRateDp - RATE_DP),
         mid_market_rate  |-> RoundHalfEven(rate, Pow10(MidRateDp - RATE_DP)),
         spread_percent   |-> RoundHalfEven(p.spread_pct, Pow10(InPctDp - PCT_DP)),
         transfer_time    |-> p.time,
         delivery_method  |-> Join(p.delivery),
         estimated        |-> TRUE]

\* The Quote appended for provider name: p = _PROVIDER_PROFILES[name].
MakeQuote(name, amount, from, to, rate) ==
    QuoteOf(PROVIDER_PROFILES[name], name, amount, from, to, rate)

(***************************************************************************)
(* Comparison: the derived views                                           *)
(***************************************************************************)

\* The index of the first element of keys that no element is smaller than
\* (Python's min returns the first minimal item, max the first maximal one).
FirstMinIndex(keys) ==
    CHOOSE i \in 1..Len(keys) :
        /\ \A j \in 1..Len(keys) : keys[i] <= keys[j]
        /\ \A j \in 1..(i - 1) : keys[j] > keys[i]

\* Mutant: best_rate takes the minimum.
FirstMaxIndex_Min(keys) == FirstMinIndex(keys)

FirstMaxIndex(keys) ==
    CHOOSE i \in 1..Len(keys) :
        /\ \A j \in 1..Len(keys) : keys[i] >= keys[j]
        /\ \A j \in 1..(i - 1) : keys[j] < keys[i]

\* Comparison.best_rate: a sequence of at most one Quote (None when empty).
best_rate(c) ==
    IF c.quotes = <<>> THEN None
    ELSE <<c.quotes[FirstMaxIndex([i \in 1..Len(c.quotes) |-> c.quotes[i].receive_amount])]>>

\* order.get(q.transfer_time, 99)
TimeOrder ==
    ("instant" :> 0) @@ ("minutes" :> 1) @@ ("1-3 hours" :> 2) @@ ("hours" :> 3) @@
    ("1-3 days" :> 4) @@ ("days" :> 5)

UNKNOWN_ORDER == 99

\* Mutant: an unrecognized bucket sorts first.
OrderOf_UnknownFirst(t) == IF t \in DOMAIN TimeOrder THEN TimeOrder[t] ELSE 0

OrderOf(t) == IF t \in DOMAIN TimeOrder THEN TimeOrder[t] ELSE UNKNOWN_ORDER

\* Comparison.fastest
fastest(c) ==
    IF c.quotes = <<>> THEN None
    ELSE <<c.quotes[FirstMinIndex([i \in 1..Len(c.quotes) |->
                                      OrderOf(c.quotes[i].transfer_time)])]>>

\* needle in text, on strings
Contains(text, needle) ==
    \E i \in 1..(Len(text) - Len(needle) + 1) :
        SubSeq(text, i, i + Len(needle) - 1) = needle

\* Mutant: no filter on the delivery method.
HasMPesa_Any(q) == TRUE

HasMPesa(q) == Contains(q.delivery_method, "M-Pesa")

\* Comparison.most_trusted
most_trusted(c) ==
    LET mpesa_quotes == SelectSeq(c.quotes, HasMPesa)
    IN  IF mpesa_quotes = <<>> THEN best_rate(c)
        ELSE <<mpesa_quotes[FirstMinIndex([i \in 1..Len(mpesa_quotes) |->
                                              true_cost_percent(mpesa_quotes[i])])]>>

\* Mutant: an item goes before the items of equal key.
RECURSIVE InsertByCost_Unstable(_, _)
InsertByCost_Unstable(sorted, q) ==
    IF sorted = <<>> THEN <<q>>
    ELSE IF true_cost_percent(Head(sorted)) < true_cost_percent(q)
         THEN <<Head(sorted)>> \o InsertByCost_Unstable(Tail(sorted), q)
    ELSE <<q>> \o sorted

\* sorted() is stable: an item goes after every item whose key is not greater.
RECURSIVE InsertByCost(_, _)
InsertByCost(sorted, q) ==
    IF sorted = <<>> THEN <<q>>
    ELSE IF true_cost_percent(Head(sorted)) <= true_cost_percent(q)
         THEN <<Head(sorted)>> \o InsertByCost(Tail(sorted), q)
    ELSE <<q>> \o sorted

RECURSIVE SortedByCost(_)
SortedByCost(qs) ==
    IF qs = <<>> THEN <<>>
    ELSE InsertByCost(SortedByCost(SubSeq(qs, 1, Len(qs) - 1)), qs[Len(qs)])

\* Mutant: sorted(..., reverse=True).
ranked_Reversed(c) ==
    LET s == SortedByCost(c.quotes)
    IN  [i \in 1..Len(s) |-> s[Len(s) + 1 - i]]

\* Comparison.ranked
ranked(c) == SortedByCost(c.quotes)

(***************************************************************************)
(* Inputs                                                                  *)
(***************************************************************************)

MaxProviders == 2     \* longest provider list a caller passes
MaxQuotes == 3        \* longest quote list of a directly constructed Comparison

RECURSIVE SeqsUpTo(_, _)
SeqsUpTo(S, n) ==
    IF n = 0 THEN {<<>>}
    ELSE LET shorter == SeqsUpTo(S, n - 1)
         IN  shorter \cup {Append(s, x) : s \in {t \in shorter : Len(t) = n - 1}, x \in S}

\* Send amounts, in cents: negative, zero, one cent, two units (the percent
\* fees round up to a cent), a fixed fee, one cent above it, and the amounts of
\* the tests.
SendAmounts == {-150, 0, 1, 200, 450, 451, 10000, 20000, 50000}

\* JPY has no fallback rate.
FromCurrencies == {"USD", "EUR", "JPY"}

\* Names a caller lists: catalog names and one that is not in the catalog.
ListedNames == {"Wise", "Mukuru", "Xoom"}

\* providers: None (the default) or a list.
ProviderArgs ==
    {[given |-> FALSE, names |-> <<>>]}
        \cup {[given |-> TRUE, names |-> l] : l \in SeqsUpTo(ListedNames, MaxProviders)}

\* Ends of the live call.  JSON true and false are the ints 1 and 0 to isinstance.
LiveOutcomes ==
    {[kind |-> k, rate |-> 0] :
        k \in {"transport_error", "timeout", "malformed_body", "no_rates",
               "rate_missing", "not_a_number"}}
        \cup {[kind |-> "number", rate |-> r] : r \in {-100000, 0, 40000, 12912346}}

NoLive == [kind |-> "none", rate |-> 0]
NoView == [op |-> "none", value |-> <<>>]

(***************************************************************************)
(* compare, step by step                                                   *)
(***************************************************************************)

Init ==
    /\ pc = "idle"
    /\ send_amount = 0
    /\ from_currency = "USD"
    /\ to_currency = "KES"
    /\ providers = [given |-> FALSE, names |-> <<>>]
    /\ live = NoLive
    /\ rate_calls = 0
    /\ mid_rate = 0
    /\ active_providers = <<>>
    /\ quotes = <<>>
    /\ result = None
    /\ view = NoView
    /\ catalog = PROVIDER_PROFILES
    /\ calls = <<>>

\* compare(send_amount, from_currency, to_currency, providers) is called.
CompareCall ==
    /\ pc = "idle"
    /\ \E a \in SendAmounts, f \in FromCurrencies, p \in ProviderArgs :
          /\ send_amount' = a
          /\ from_currency' = f
          /\ providers' = p
    /\ pc' = "rate_call"
    /\ UNCHANGED <<to_currency, live, rate_calls, mid_rate, active_providers, quotes,
                   result, view>>
    /\ UNCHANGED hostvars

\* mid_rate = get_mid_market_rate(from_currency, to_currency)
GetMidMarketRate ==
    /\ pc = "rate_call"
    /\ \E o \in LiveOutcomes :
          /\ live' = o
          /\ mid_rate' = ResolveRate(o, from_currency, to_currency)
    /\ rate_calls' = rate_calls + 1
    /\ pc' = "rate_ret"
    /\ UNCHANGED <<send_amount, from_currency, to_currency, providers, active_providers,
                   quotes, result, view>>
    /\ UNCHANGED hostvars

\* Mutant: a rate of exactly 0 passes.
RateUnavailable_ZeroPasses(rate) == rate < 0

\* if mid_rate <= 0
RateUnavailable(rate) == rate <= 0

\* raise ValueError
RaiseRateUnavailable ==
    /\ pc = "rate_ret"
    /\ RateUnavailable(mid_rate)
    /\ pc' = "raised"
    /\ live' = NoLive
    /\ UNCHANGED <<send_amount, from_currency, to_currency, providers, rate_calls,
                   mid_rate, active_providers, quotes, result, view>>
    /\ UNCHANGED hostvars

\* Mutant: providers or [], no default to the catalog.
ActiveProviders_NoDefault(p) ==
    IF p.given /\ p.names # <<>> THEN p.names ELSE <<>>

\* providers or list(_PROVIDER_PROFILES.keys())
ActiveProviders(p) ==
    IF p.given /\ p.names # <<>> THEN p.names ELSE ProviderNames

SelectProviders ==
    /\ pc = "rate_ret"
    /\ ~RateUnavailable(mid_rate)
    /\ active_providers' = ActiveProviders(providers)
    /\ quotes' = <<>>
    /\ pc' = "loop"
    /\ live' = NoLive
    /\ UNCHANGED <<send_amount, from_currency, to_currency, providers, rate_calls,
                   mid_rate, result, view>>
    /\ UNCHANGED hostvars

InCatalog(name) == name \in DOMAIN PROVIDER_PROFILES

\* if name not in _PROVIDER_PROFILES: continue
SkipUnknown ==
    /\ pc = "loop"
    /\ active_providers # <<>>
    /\ ~InCatalog(Head(active_providers))
    /\ active_providers' = Tail(active_providers)
    /\ UNCHANGED <<pc, send_amount, from_currency, to_currency, providers, live,
                   rate_calls, mid_rate, quotes, result, view>>
    /\ UNCHANGED hostvars

\* quotes.append(Quote(...))
BuildQuote ==
    /\ pc = "loop"
    /\ active_providers # <<>>
    /\ InCatalog(Head(active_providers))
    /\ quotes' = Append(quotes, MakeQuote(Head(active_providers), send_amount,
                                          from_currency, to_currency, mid_rate))
    /\ active_providers' = Tail(active_providers)
    /\ UNCHANGED <<pc, send_amount, from_currency, to_currency, providers, live,
                   rate_calls, mid_rate, result, view>>
    /\ UNCHANGED hostvars

\* Mutant: the Comparison keeps the rate rounded as the quotes do.
MakeComparison_RoundedRate(from, to, amount, rate, qs) ==
    [send_currency |-> from, receive_currency |-> to, send_amount |-> amount,
     mid_market_rate |-> RoundHalfEven(rate, Pow10(MidRateDp - RATE_DP))
                            * Pow10(MidRateDp - RATE_DP),
     quotes |-> qs]

MakeComparison(from, to, amount, rate, qs) ==
    [send_currency |-> from, receive_currency |-> to, send_amount |-> amount,
     mid_market_rate |-> rate, quotes |-> qs]

\* return Comparison(...)
ReturnComparison ==
    /\ pc = "loop"
    /\ active_providers = <<>>
    /\ result' = <<MakeComparison(from_currency, to_currency, send_amount, mid_rate, quotes)>>
    /\ pc' = "returned"
    /\ UNCHANGED <<send_amount, from_currency, to_currency, providers, live, rate_calls,
                   mid_rate, active_providers, quotes, view>>
    /\ UNCHANGED hostvars

\* The loop of compare as a function of the names it iterates.
RECURSIVE QuotesFor(_, _, _, _, _)
QuotesFor(names, amount, from, to, rate) ==
    IF names = <<>> THEN <<>>
    ELSE IF InCatalog(Head(names))
         THEN <<MakeQuote(Head(names), amount, from, to, rate)>>
                 \o QuotesFor(Tail(names), amount, from, to, rate)
    ELSE QuotesFor(Tail(names), amount, from, to, rate)

\* What compare returns for its arguments once the rate source returned rate > 0.
CompareAlone(amount, from, to, p, rate) ==
    MakeComparison(from, to, amount, rate,
                   QuotesFor(ActiveProviders(p), amount, from, to, rate))

(***************************************************************************)
(* Reading the views of a Comparison                                       *)
(***************************************************************************)

\* The quotes of the Comparison compare returned.
ResultQuotes == IF result = None THEN <<>> ELSE result[1].quotes

ReadView(op, value) ==
    /\ pc = "returned"
    /\ view' = [op |-> op, value |-> value]
    /\ UNCHANGED <<pc, send_amount, from_currency, to_currency, providers, live,
                   rate_calls, mid_rate, active_providers, quotes, result>>
    /\ UNCHANGED hostvars

BestRate == ReadView("best_rate", best_rate(result[1]))
Fastest == ReadView("fastest", fastest(result[1]))
MostTrusted == ReadView("most_trusted", most_trusted(result[1]))
Ranked == ReadView("ranked", ranked(result[1]))

\* q.kes_per_dollar_effective read on a quote of the Comparison.
KesPerDollarEffective ==
    \E i \in 1..Len(ResultQuotes) :
        \E v \in kes_per_dollar_effective(ResultQuotes[i]) :
            ReadView("kes_per_dollar_effective", <<[quote |-> ResultQuotes[i], rate |-> v]>>)

Next ==
    \/ CompareCall
    \/ GetMidMarketRate
    \/ RaiseRateUnavailable
    \/ SelectProviders
    \/ SkipUnknown
    \/ BuildQuote
    \/ ReturnComparison
    \/ BestRate
    \/ Fastest
    \/ MostTrusted
    \/ Ranked
    \/ KesPerDollarEffective

Spec == Init /\ [][Next]_vars

(***************************************************************************)
(* A Comparison constructed directly from Quotes, as the tests do          *)
(***************************************************************************)

\* Quote(provider, "USD", "KES", 200.0, receive, fee, ..., spread, time, delivery)
SampleQuote(provider, receive, fee, spread, time, delivery) ==
    [provider         |-> provider,
     send_currency    |-> "USD",
     receive_currency |-> "KES",
     send_amount      |-> 20000,
     receive_amount   |-> receive,
     fee              |-> fee,
     exchange_rate    |-> RoundDigits(MulDigits(Digits(12950000),
                                                Digits(100 * Pow10(InPctDp) - spread)),
                                      TheirRateDp - RATE_DP),
     mid_market_rate  |-> 1295000,
     spread_percent   |-> spread,
     transfer_time    |-> time,
     delivery_method  |-> Join(delivery),
     estimated        |-> TRUE]

\* Every time bucket and two unrecognized ones; equal true costs (ProvA, ProvD,
\* ProvE), equal receive amounts (ProvB, ProvD), with and without M-Pesa.
QuoteSamples ==
    { SampleQuote("ProvA", 2500000, 0, 100, "minutes", <<"M-Pesa">>),
      SampleQuote("ProvB", 2600000, 0, 50, "days", <<"Bank deposit">>),
      SampleQuote("ProvC", 2400000, 0, 200, "instant", <<"M-Pesa", "Bank deposit">>),
      SampleQuote("ProvD", 2600000, 200, 0, "weeks", <<"Cash pickup">>),
      SampleQuote("ProvE", 2500000, 100, 50, "hours", <<"Bank deposit", "M-Pesa">>),
      SampleQuote("ProvF", 2450000, 0, 150, "same day", <<"Bank deposit", "Cash pickup">>),
      SampleQuote("ProvG", 2300000, 500, 300, "1-3 days", <<"Cash pickup">>),
      SampleQuote("ProvH", 2550000, 399, 120, "1-3 hours", <<"M-Pesa", "Cash pickup">>) }

InitViews ==
    /\ pc = "returned"
    /\ send_amount = 20000
    /\ from_currency = "USD"
    /\ to_currency = "KES"
    /\ providers = [given |-> FALSE, names |-> <<>>]
    /\ live = NoLive
    /\ rate_calls = 0
    /\ mid_rate = 0
    /\ active_providers = <<>>
    /\ quotes = <<>>
    /\ \E qs \in SeqsUpTo(QuoteSamples, MaxQuotes) :
          result = <<MakeComparison("USD", "KES", 20000, 12950000, qs)>>
    /\ view = NoView
    /\ catalog = PROVIDER_PROFILES
    /\ calls = <<>>

NextViews == BestRate \/ Fastest \/ MostTrusted \/ Ranked

SpecViews == InitViews /\ [][NextViews]_vars

(***************************************************************************)
(* compare invoked concurrently by a host: every invocation has its own    *)
(* frame (arguments and locals); the module-level catalog is the one       *)
(* object all of them reach.                                               *)
(***************************************************************************)

MaxInvocations == 2     \* invocations the host runs at once

Invocations == 1..MaxInvocations

\* The calls the host issues: the full catalog, a list with a name that is
\* not in the catalog, and a currency without a fallback rate.
HostRequests ==
    {[send_amount |-> 20000, from_currency |-> "USD",
      providers |-> [given |-> FALSE, names |-> <<>>]],
     [send_amount |-> 451, from_currency |-> "EUR",
      providers |-> [given |-> TRUE, names |-> <<"Mukuru", "Xoom">>]],
     [send_amount |-> 20000, from_currency |-> "JPY",
      providers |-> [given |-> TRUE, names |-> <<"Wise">>]]}

\* Every invocation's live call times out: the rate is the fallback's.
HostLiveOutcomes == {[kind |-> "timeout", rate |-> 0]}

\* A frame before compare is entered.
NoCall ==
    [pc |-> "idle", send_amount |-> 0, from_currency |-> "USD", to_currency |-> "KES",
     providers |-> [given |-> FALSE, names |-> <<>>], mid_rate |-> 0,
     active_providers |-> <<>>, quotes |-> <<>>, result |-> None]

\* list(cat.keys()): the keys in insertion order.
CatalogKeys(cat) ==
    LET Present(n) == n \in DOMAIN cat
    IN  SelectSeq(ProviderNames, Present)

\* providers or list(_PROVIDER_PROFILES.keys()), on the catalog as it is.
ActiveProvidersIn(cat, p) ==
    IF p.given /\ p.names # <<>> THEN p.names ELSE CatalogKeys(cat)

\* Mutant: the loop keeps the fee it computed in the profile (p["fee_fixed"] = fee);
\* p is the catalog's own entry, not a copy.
CatalogAfterQuote_FeeKept(cat, name, amount) ==
    [cat EXCEPT ![name].fee_fixed =
        RoundHalfEven(Fee(cat[name], amount), Pow10(FeeDp - MONEY_DP))]

\* The catalog after one iteration of the loop for name: the body reads
\* p = _PROVIDER_PROFILES[name] and assigns nothing in it.
CatalogAfterQuote(cat, name, amount) == cat

InitHost ==
    /\ pc = "idle"
    /\ send_amount = 0
    /\ from_currency = "USD"
    /\ to_currency = "KES"
    /\ providers = [given |-> FALSE, names |-> <<>>]
    /\ live = NoLive
    /\ rate_calls = 0
    /\ mid_rate = 0
    /\ active_providers = <<>>
    /\ quotes = <<>>
    /\ result = None
    /\ view = NoView
    /\ catalog = PROVIDER_PROFILES
    /\ calls = [t \in Invocations |-> NoCall]

\* Invocation t enters compare.
HostCompareCall(t) ==
    /\ calls[t].pc = "idle"
    /\ \E r \in HostRequests :
          calls' = [calls EXCEPT ![t] = [@ EXCEPT !.send_amount = r.send_amount,
                                                  !.from_currency = r.from_currency,
                                                  !.providers = r.providers,
                                                  !.pc = "rate_call"]]
    /\ UNCHANGED <<catalog, callvars>>

\* mid_rate = get_mid_market_rate(from_currency, to_currency) in invocation t.
HostGetMidMarketRate(t) ==
    /\ calls[t].pc = "rate_call"
    /\ \E o \in HostLiveOutcomes :
          calls' = [calls EXCEPT ![t] =
                      [@ EXCEPT !.mid_rate = ResolveRate(o, calls[t].from_currency,
                                                         calls[t].to_currency),
                                !.pc = "rate_ret"]]
    /\ UNCHANGED <<catalog, callvars>>

HostRaiseRateUnavailable(t) ==
    /\ calls[t].pc = "rate_ret"
    /\ RateUnavailable(calls[t].mid_rate)
    /\ calls' = [calls EXCEPT ![t].pc = "raised"]
    /\ UNCHANGED <<catalog, callvars>>

HostSelectProviders(t) ==
    /\ calls[t].pc = "rate_ret"
    /\ ~RateUnavailable(calls[t].mid_rate)
    /\ calls' = [calls EXCEPT ![t] =
                   [@ EXCEPT !.active_providers = ActiveProvidersIn(catalog, calls[t].providers),
                             !.quotes = <<>>,
                             !.pc = "loop"]]
    /\ UNCHANGED <<catalog, callvars>>

HostSkipUnknown(t) ==
    /\ calls[t].pc = "loop"
    /\ calls[t].active_providers # <<>>
    /\ Head(calls[t].active_providers) \notin DOMAIN catalog
    /\ calls' = [calls EXCEPT ![t].active_providers = Tail(@)]
    /\ UNCHANGED <<catalog, callvars>>

HostBuildQuote(t) ==
    /\ calls[t].pc = "loop"
    /\ calls[t].active_providers # <<>>
    /\ Head(calls[t].active_providers) \in DOMAIN catalog
    /\ LET c    == calls[t]
           name == Head(c.active_providers)
       IN  /\ calls' = [calls EXCEPT ![t] =
                          [@ EXCEPT !.quotes = Append(@, QuoteOf(catalog[name], name,
                                                                 c.send_amount, c.from_currency,
                                                                 c.to_currency, c.mid_rate)),
                                    !.active_providers = Tail(@)]]
           /\ catalog' = CatalogAfterQuote(catalog, name, c.send_amount)
    /\ UNCHANGED callvars

HostReturnComparison(t) ==
    /\ calls[t].pc = "loop"
    /\ calls[t].active_providers = <<>>
    /\ LET c == calls[t]
       IN  calls' = [calls EXCEPT ![t] =
                       [@ EXCEPT !.result = <<MakeComparison(c.from_currency, c.to_currency,
                                                             c.send_amount, c.mid_rate,
                                                             c.quotes)>>,
                                 !.pc = "returned"]]
    /\ UNCHANGED <<catalog, callvars>>

NextHost ==
    \E t \in Invocations :
        \/ HostCompareCall(t)
        \/ HostGetMidMarketRate(t)
        \/ HostRaiseRateUnavailable(t)
        \/ HostSelectProviders(t)
        \/ HostSkipUnknown(t)
        \/ HostBuildQuote(t)
        \/ HostReturnComparison(t)

SpecHost == InitHost /\ [][NextHost]_vars

(***************************************************************************)
(* Properties                                                              *)
(***************************************************************************)

Range(seq) == {seq[i] : i \in 1..Len(seq)}

\* C1: compare raises the rate-unavailable error exactly when the mid-market
\* rate the rate source returned is <= 0.  When it raises no Comparison is
\* returned and no quote was built; when the rate is > 0 it goes on to build
\* the quotes and returns a Comparison, whatever the send amount and the
\* provider list.
C1_RaisesIffRateNotPositive ==
    /\ [](/\ pc = "raised" => (mid_rate <= 0 /\ result = None /\ quotes = <<>>)
          /\ pc \in {"loop", "returned"} => mid_rate > 0
          /\ pc = "returned" => Len(result) = 1)
    /\ [][pc = "rate_ret" => IF mid_rate <= 0 THEN pc' = "raised" ELSE pc' = "loop"]_vars
    /\ [][pc = "loop" => pc' \in {"loop", "returned"}]_vars
    /\ [][pc' = "raised" => pc = "rate_ret"]_vars

C1_Witness ==
    /\ pc = "raised"
    /\ mid_rate = 0
    /\ send_amount = 20000
    /\ providers = [given |-> TRUE, names |-> <<"Wise">>]

NoDuplicates(seq) == \A i, j \in 1..Len(seq) : seq[i] = seq[j] => i = j

\* C2: for a caller-supplied provider list (a subset of names: empty, with
\* names not in the catalog, or with only such names) and a positive rate,
\* compare returns exactly one quote for each supplied name that is in the
\* catalog and none for any other name.
C2_QuotesAreSuppliedNamesInCatalog ==
    (pc = "returned" /\ rate_calls > 0 /\ providers.given /\ NoDuplicates(providers.names)) =>
        /\ {ResultQuotes[i].provider : i \in 1..Len(ResultQuotes)}
              = Range(providers.names) \cap DOMAIN PROVIDER_PROFILES
        /\ \A n \in Range(providers.names) \cap DOMAIN PROVIDER_PROFILES :
              Cardinality({i \in 1..Len(ResultQuotes) : ResultQuotes[i].provider = n}) = 1

\* The unrounded product net_send * their_rate of a provider, against half a cent.
HalfCent == [i \in 1..(ReceiveDp - MONEY_DP) |-> IF i = ReceiveDp - MONEY_DP THEN 5 ELSE 0]

RECURSIVE StripZeros(_)
StripZeros(d) ==
    IF d # <<>> /\ d[Len(d)] = 0 THEN StripZeros(SubSeq(d, 1, Len(d) - 1)) ELSE d

RECURSIVE DigitsLessNorm(_, _)
DigitsLessNorm(a, b) ==
    IF Len(a) # Len(b) THEN Len(a) < Len(b)
    ELSE IF a = <<>> THEN FALSE
    ELSE IF a[Len(a)] # b[Len(b)] THEN a[Len(a)] < b[Len(b)]
    ELSE DigitsLessNorm(SubSeq(a, 1, Len(a) - 1), SubSeq(b, 1, Len(b) - 1))

NetTimesRate(q, rate) ==
    MulDigits(Digits(NetSend(PROVIDER_PROFILES[q.provider], q.send_amount)),
              TheirRate(PROVIDER_PROFILES[q.provider], rate))

\* C3 as stated: every quote of compare has receive_amount >= 0, and
\* receive_amount is 0 exactly when the quote's send_amount minus its fee
\* is <= 0.
C3_ZeroExactlyWhenNetNotPositive ==
    \A i \in 1..Len(quotes) :
        /\ quotes[i].receive_amount >= 0
        /\ quotes[i].receive_amount = 0 <=> quotes[i].send_amount - quotes[i].fee <= 0

\* C3 as amended: every quote of compare has receive_amount >= 0;
\* receive_amount is 0 whenever the quote's send_amount minus its fee is <= 0;
\* with a positive net send it is 0 when net send times the provider's rate is
\* under half a cent (it rounds to 0.00) and positive when it is over.
C3_ZeroWhenNetNotPositiveOrUnderHalfCent ==
    \A i \in 1..Len(quotes) :
        LET q == quotes[i]
        IN  /\ q.receive_amount >= 0
            /\ q.send_amount - q.fee <= 0 => q.receive_amount = 0
            /\ q.send_amount - q.fee > 0 =>
                  LET product == StripZeros(NetTimesRate(q, mid_rate))
                  IN  /\ DigitsLessNorm(product, HalfCent) => q.receive_amount = 0
                      /\ DigitsLessNorm(HalfCent, product) => q.receive_amount > 0

\* A fee above the send amount, and a positive net send that rounds to nothing.
C3_Witness ==
    /\ pc = "returned"
    /\ \E i, j \in 1..Len(quotes) :
          /\ quotes[i].send_amount - quotes[i].fee < 0
          /\ quotes[i].receive_amount = 0
          /\ quotes[j].send_amount - quotes[j].fee > 0
          /\ quotes[j].receive_amount = 0

\* C8: for every quote, true_cost_percent is fee / send_amount * 100 +
\* spread_percent rounded to 2 decimals (at most half a hundredth of a percent
\* from the exact value), with the fee term 0 when send_amount <= 0; a
\* zero-fee quote's true cost is its spread.
C8_TrueCostIsFeePercentPlusSpread ==
    \A i \in 1..Len(quotes) :
        LET q     == quotes[i]
            tc    == true_cost_percent(q)
            exact == q.fee * 10000 + q.spread_percent * q.send_amount
            diff  == tc * q.send_amount - exact
        IN  /\ q.send_amount > 0 =>
                  /\ 2 * diff <= q.send_amount
                  /\ 2 * diff >= 0 - q.send_amount
            /\ q.send_amount <= 0 => tc = q.spread_percent
            /\ q.fee = 0 => tc = q.spread_percent

\* A quote whose fee percentage is not a whole number of hundredths, read by ranked().
C8_Witness ==
    /\ view.op = "ranked"
    /\ \E i \in 1..Len(quotes) :
          /\ quotes[i].send_amount > 0
          /\ quotes[i].fee > 0
          /\ (quotes[i].fee * 10000) % quotes[i].send_amount # 0
          /\ 2 * ((quotes[i].fee * 10000) % quotes[i].send_amount) > quotes[i].send_amount
    /\ \E i \in 1..Len(quotes) : quotes[i].send_amount > 0 /\ quotes[i].fee = 0

FallbackCurrencies == {"USD", "GBP", "EUR", "CAD", "AED", "AUD"}

\* C9: get_mid_market_rate returns, for every failed live fetch (transport
\* error, timeout, malformed body, missing or non-positive rate value), the
\* fallback-table rate of the pair if the pair is one of {USD, GBP, EUR, CAD,
\* AED, AUD} -> KES and 0 otherwise; it returns the live rate only when that
\* is a positive number; it returns 0 only when the pair is in neither source.
C9_RateSourceFallsBack ==
    pc = "rate_ret" =>
        LET failed  == live.kind # "number" \/ live.rate <= 0
            inTable == from_currency \in FallbackCurrencies /\ to_currency = "KES"
        IN  /\ inTable <=> <<from_currency, to_currency>> \in DOMAIN FALLBACKS
            /\ failed /\ inTable =>
                  mid_rate = FALLBACKS[<<from_currency, to_currency>>] /\ mid_rate > 0
            /\ failed /\ ~inTable => mid_rate = 0
            /\ ~failed => mid_rate = live.rate
            /\ mid_rate = 0 => failed /\ ~inTable

C9_Witness ==
    /\ pc = "rate_ret"
    /\ live.kind = "timeout"
    /\ from_currency = "EUR"
    /\ mid_rate = 14080000

C10_Case ==
    /\ pc = "returned"
    /\ providers = [given |-> TRUE, names |-> <<"Wise">>]
    /\ send_amount = 20000
    /\ mid_rate = 12950000

\* C10 as stated: compare with only Wise, 200 sent, mid-market rate 129.50:
\* fee 0.82, exchange rate 129.50 x 0.9945 to 4 decimals (128.79 to two), net
\* send 199.18, and receive_amount 25,655 to the whole unit.
C10_WiseReceivesAbout25655 ==
    C10_Case =>
        LET q == ResultQuotes[1]
        IN  /\ q.fee = 82
            /\ RoundHalfEven(q.exchange_rate, 100) = 12879
            /\ q.send_amount - q.fee = 19918
            /\ RoundHalfEven(q.receive_amount, 100) = 25655

\* C10 as amended: the same chain ends in receive_amount 25,651.94
\* (199.18 x 128.78775), with the exchange rate stored as 128.7878.
C10_WiseReceives2565194 ==
    C10_Case =>
        LET q == ResultQuotes[1]
        IN  /\ Len(ResultQuotes) = 1
            /\ q.fee = 82
            /\ q.exchange_rate = 1287878
            /\ RoundHalfEven(q.exchange_rate, 100) = 12879
            /\ q.send_amount - q.fee = 19918
            /\ q.receive_amount = 2565194

C10_Witness == C10_Case /\ ResultQuotes[1].provider = "Wise"

C11_Case ==
    /\ pc = "returned"
    /\ ~providers.given
    /\ from_currency = "USD"
    /\ mid_rate = 12950000

\* C11: with the mid-market rate 129.50, USD as source and no provider
\* filter, compare returns exactly one quote per catalog entry (7 quotes), and
\* for the send amounts 100, 200 and 500 every quote has estimated = true,
\* fee >= 0, receive_amount > 0 and the send_amount passed in.
C11_OneQuotePerCatalogEntry ==
    C11_Case =>
        /\ Len(ResultQuotes) = 7
        /\ Cardinality(DOMAIN PROVIDER_PROFILES) = 7
        /\ \A n \in DOMAIN PROVIDER_PROFILES :
              Cardinality({i \in 1..Len(ResultQuotes) : ResultQuotes[i].provider = n}) = 1
        /\ send_amount \in {10000, 20000, 50000} =>
              \A i \in 1..Len(ResultQuotes) :
                  /\ ResultQuotes[i].estimated
                  /\ ResultQuotes[i].fee >= 0
                  /\ ResultQuotes[i].receive_amount > 0
                  /\ ResultQuotes[i].send_amount = send_amount

C11_Witness ==
    /\ C11_Case
    /\ send_amount = 50000
    /\ live.kind = "none"
    /\ \E i \in 1..Len(ResultQuotes) : ResultQuotes[i].fee = 0
    /\ \E i \in 1..Len(ResultQuotes) : ResultQuotes[i].fee = 500

\* The unit of a Quote's mid_market_rate in units of compare's mid_rate.
RateUnit == Pow10(MidRateDp - RATE_DP)

\* C12: in an invocation of compare the rate source is called exactly once and
\* the call completes before any quote is built; after a non-positive rate no
\* quote is ever built; otherwise every quote carries the rate that call
\* returned rounded to 4 decimals and the Comparison carries it as returned.
C12_RateFetchedOnceBeforeQuotes ==
    /\ [](/\ pc \in {"idle", "rate_call"} => (rate_calls = 0 /\ quotes = <<>>)
          /\ pc \in {"rate_ret", "raised", "loop", "returned"} => rate_calls = 1
          /\ quotes # <<>> => (rate_calls = 1 /\ mid_rate > 0)
          /\ pc = "raised" => (mid_rate <= 0 /\ quotes = <<>> /\ result = None)
          /\ \A i \in 1..Len(quotes) :
                /\ 2 * (quotes[i].mid_market_rate * RateUnit - mid_rate) <= RateUnit
                /\ 2 * (mid_rate - quotes[i].mid_market_rate * RateUnit) <= RateUnit
          /\ pc = "returned" =>
                (result[1].mid_market_rate = mid_rate /\ result[1].quotes = quotes))
    /\ [][rate_calls' # rate_calls => (pc = "rate_call" /\ quotes = <<>>)]_vars
    /\ [][pc # "rate_call" => mid_rate' = mid_rate]_vars
    /\ [][(pc = "rate_ret" /\ mid_rate <= 0) => (pc' = "raised" /\ quotes' = <<>>)]_vars
    /\ [][pc = "raised" => (pc' = "raised" /\ quotes' = <<>>)]_vars

\* A rate that the quotes round (129.12346 to 129.1235) and the Comparison keeps.
C12_Witness ==
    /\ pc = "returned"
    /\ rate_calls = 1
    /\ mid_rate % RateUnit # 0
    /\ Len(quotes) >= 2
    /\ \A i \in 1..Len(quotes) : quotes[i].mid_market_rate * RateUnit # mid_rate
    /\ result[1].mid_market_rate = mid_rate

\* The Comparison has a quote of every catalog entry.
FullCatalog ==
    {ResultQuotes[i].provider : i \in 1..Len(ResultQuotes)} = DOMAIN PROVIDER_PROFILES

\* C14: for a compare over the full catalog with a positive mid-market rate
\* and a positive send amount, Wise or LemFi is among the first two quotes of
\* ranked(); Wise has the lowest spread percentage of the catalog.
C14_WiseOrLemFiInFirstTwo ==
    /\ \A n \in DOMAIN PROVIDER_PROFILES :
          PROVIDER_PROFILES["Wise"].spread_pct <= PROVIDER_PROFILES[n].spread_pct
    /\ (view.op = "ranked" /\ FullCatalog /\ send_amount > 0 /\ mid_rate > 0) =>
          \E i \in 1..2 : view.value[i].provider \in {"Wise", "LemFi"}

\* Wise is second: at 2.00 its fee rounds up to a cent and Sendwave is cheaper.
C14_Witness ==
    /\ view.op = "ranked"
    /\ FullCatalog
    /\ send_amount > 0
    /\ view.value[1].provider = "Sendwave"
    /\ view.value[2].provider = "Wise"
    /\ true_cost_percent(view.value[1]) < true_cost_percent(view.value[2])

\* The fee of each fee model as the claim gives it (FeeDp decimals).
FeeByModel(p, amount) ==
    CASE p.fee_type = "zero" -> 0
      [] p.fee_type = "percent" -> amount * p.fee_pct
      [] p.fee_type = "percent+fixed" -> amount * p.fee_pct + p.fee_fixed * Pow10(FractionDp)
      [] p.fee_type \in {"fixed", "tiered"} -> p.fee_fixed * Pow10(FractionDp)

\* k zeros below the digits d: d * 10^k.
ShiftDigits(d, k) == [i \in 1..k |-> 0] \o d

\* stored, a count of units of 10^k, is a value nearest to the natural number
\* exact (digits): exact lies within half a unit of it.
IsRoundingOf(stored, exact, k) ==
    LET e    == StripZeros(exact)
        high == ShiftDigits(Digits((2 * stored + 1) * 5), k - 1)
        low  == ShiftDigits(Digits((2 * stored - 1) * 5), k - 1)
    IN  /\ stored >= 0
        /\ ~DigitsLessNorm(high, e)
        /\ stored > 0 => ~DigitsLessNorm(e, low)

\* C15: for every catalog provider, send amount and positive mid-market rate
\* compare computes the fee by the provider's fee model, the provider rate as
\* mid-market rate x (1 - spread / 100) and the receive amount as (send
\* amount - fee) x provider rate when send amount - fee > 0 and 0 otherwise; it
\* stores fee and receive amount rounded to 2 decimals, the rates to 4 and the
\* spread to 2.
C15_QuoteArithmetic ==
    \A i \in 1..Len(quotes) :
        LET q    == quotes[i]
            p    == PROVIDER_PROFILES[q.provider]
            fee  == FeeByModel(p, q.send_amount)
            rate == MulDigits(Digits(mid_rate), Digits(100 * Pow10(InPctDp) - p.spread_pct))
            net  == q.send_amount * Pow10(FractionDp) - fee
        IN  /\ 2 * (q.fee * Pow10(FeeDp - MONEY_DP) - fee) <= Pow10(FeeDp - MONEY_DP)
            /\ 2 * (fee - q.fee * Pow10(FeeDp - MONEY_DP)) <= Pow10(FeeDp - MONEY_DP)
            /\ IsRoundingOf(q.exchange_rate, rate, TheirRateDp - RATE_DP)
            /\ 2 * (q.mid_market_rate * RateUnit - mid_rate) <= RateUnit
            /\ 2 * (mid_rate - q.mid_market_rate * RateUnit) <= RateUnit
            /\ q.spread_percent * Pow10(InPctDp - PCT_DP) = p.spread_pct
            /\ IF net > 0
               THEN IsRoundingOf(q.receive_amount, MulDigits(Digits(net), rate),
                                 ReceiveDp - MONEY_DP)
               ELSE q.receive_amount = 0

\* Every fee model in one Comparison, with a fee above the send amount, a net
\* send of one cent and a rate that has more than 4 decimals.
C15_Witness ==
    /\ pc = "returned"
    /\ {PROVIDER_PROFILES[quotes[i].provider].fee_type : i \in 1..Len(quotes)}
          = {"zero", "percent", "percent+fixed", "fixed", "tiered"}
    /\ mid_rate % RateUnit # 0
    /\ \E i, j \in 1..Len(quotes) :
          /\ quotes[i].fee > quotes[i].send_amount
          /\ quotes[i].receive_amount = 0
          /\ quotes[j].send_amount - quotes[j].fee = 1
          /\ quotes[j].receive_amount > 0

\* v, a count of units, is a value nearest to n / d (n >= 0, d > 0).
IsNearestTo(v, n, d) ==
    \/ v = n \div d /\ 2 * (n % d) <= d
    \/ v = n \div d + 1 /\ 2 * (n % d) >= d

\* C16 as stated: kes_per_dollar_effective equals receive_amount /
\* (send_amount - fee) when send_amount - fee > 0 and is 0 when that is not
\* positive, is never negative, and is given to 4 decimals.
C16_EffectiveRateTo4Decimals ==
    view.op = "kes_per_dollar_effective" =>
        LET q    == view.value[1].quote
            v    == view.value[1].rate
            net  == q.send_amount - q.fee
            unit == Pow10(RATE_DP - KES_DP)
        IN  /\ v >= 0
            /\ net <= 0 => v = 0
            /\ net > 0 =>
                  LET whole == (q.receive_amount * Pow10(KES_DP)) \div net
                      rest  == (q.receive_amount * Pow10(KES_DP)) % net
                  IN  IsNearestTo((v - whole) * unit, rest * unit, net)

\* C16 as amended: for every quote compare builds, kes_per_dollar_effective
\* is receive_amount / (send_amount - fee) rounded to 2 decimals when
\* send_amount - fee > 0 and 0 when that is not positive; it is never
\* negative.
C16_EffectiveRateTo2Decimals ==
    view.op = "kes_per_dollar_effective" =>
        LET q   == view.value[1].quote
            v   == view.value[1].rate
            net == q.send_amount - q.fee
        IN  /\ v >= 0
            /\ net <= 0 => v = 0
            /\ net > 0 => IsNearestTo(v, q.receive_amount * Pow10(KES_DP), net)

\* Wise at 200 and 129.50: 25,651.94 / 199.18 = 128.7877..., read as 128.79.
C16_Witness ==
    /\ view.op = "kes_per_dollar_effective"
    /\ view.value[1].quote.provider = "Wise"
    /\ view.value[1].quote.receive_amount = 2565194
    /\ view.value[1].quote.send_amount - view.value[1].quote.fee = 19918
    /\ view.value[1].rate = 12879

(***************************************************************************)
(* Properties of concurrent invocations                                    *)
(***************************************************************************)

\* C13: in every interleaving of the concurrent compare invocations the
\* Provider Catalog stays as it was, and every invocation that returns
\* returns the Comparison it returns when run alone with the same arguments
\* and the same resolved rate; an invocation that raised returned nothing.
C13_InvocationsDoNotInterfere ==
    /\ catalog = PROVIDER_PROFILES
    /\ \A t \in DOMAIN calls :
          LET c == calls[t]
          IN  /\ c.pc = "returned" =>
                    c.result = <<CompareAlone(c.send_amount, c.from_currency,
                                              c.to_currency, c.providers, c.mid_rate)>>
              /\ c.pc # "returned" => c.result = None

\* One invocation returned the full catalog while another, with other
\* arguments and another rate, is in the middle of its loop.
C13_Witness ==
    \E t, u \in DOMAIN calls :
        /\ calls[t].pc = "returned"
        /\ Len(calls[t].result[1].quotes) = Len(ProviderNames)
        /\ calls[u].pc = "loop"
        /\ calls[u].quotes # <<>>
        /\ calls[u].active_providers # <<>>
        /\ calls[u].send_amount # calls[t].send_amount
        /\ calls[u].mid_rate # calls[t].mid_rate

(***************************************************************************)
(* Properties of the views, for a Comparison of any quotes                 *)
(***************************************************************************)

\* The quotes the Comparison holds.
HeldQuotes == result[1].quotes

\* C4: ranked() returns the quotes the Comparison holds in ascending order of
\* true_cost_percent, and quotes of equal true_cost_percent keep the order
\* they have in the quotes list.
C4_RankedAscendingAndStable ==
    view.op = "ranked" =>
        /\ Len(view.value) = Len(HeldQuotes)
        /\ \A i \in 1..(Len(view.value) - 1) :
              true_cost_percent(view.value[i]) <= true_cost_percent(view.value[i + 1])
        /\ \A k \in {true_cost_percent(q) : q \in Range(HeldQuotes) \cup Range(view.value)} :
              LET SameCost(q) == true_cost_percent(q) = k
              IN  SelectSeq(view.value, SameCost) = SelectSeq(HeldQuotes, SameCost)

\* Three quotes out of order, the last two different and of equal true cost.
C4_Witness ==
    /\ view.op = "ranked"
    /\ Len(HeldQuotes) = 3
    /\ true_cost_percent(HeldQuotes[1]) > true_cost_percent(HeldQuotes[2])
    /\ true_cost_percent(HeldQuotes[2]) = true_cost_percent(HeldQuotes[3])
    /\ HeldQuotes[2] # HeldQuotes[3]

\* C5: with at least one quote best_rate returns a quote of the Comparison
\* whose receive_amount is the maximum; with no quote best_rate, fastest and
\* most_trusted return None.
C5_BestRateIsMaxReceive ==
    /\ (view.op = "best_rate" /\ HeldQuotes # <<>>) =>
          /\ Len(view.value) = 1
          /\ view.value[1] \in Range(HeldQuotes)
          /\ \A q \in Range(HeldQuotes) : q.receive_amount <= view.value[1].receive_amount
    /\ (view.op \in {"best_rate", "fastest", "most_trusted"} /\ HeldQuotes = <<>>) =>
          view.value = None

C5_Witness ==
    /\ view.op = "best_rate"
    /\ Len(HeldQuotes) = 3
    /\ HeldQuotes[1].receive_amount < HeldQuotes[2].receive_amount
    /\ HeldQuotes[3].receive_amount < HeldQuotes[1].receive_amount
    /\ view.value = <<HeldQuotes[2]>>

\* instant < minutes < "1-3 hours" < "hours" < "1-3 days" < "days" < anything else
BucketOrder == <<"instant", "minutes", "1-3 hours", "hours", "1-3 days", "days">>

Recognized(t) == t \in Range(BucketOrder)

BucketRank(t) ==
    IF Recognized(t) THEN CHOOSE i \in 1..Len(BucketOrder) : BucketOrder[i] = t
    ELSE Len(BucketOrder) + 1

\* C6: with at least one quote fastest returns a quote of the Comparison whose
\* transfer_time is minimal in that order; a quote with an unrecognized bucket
\* is returned only when every quote has one.
C6_FastestIsMinBucket ==
    (view.op = "fastest" /\ HeldQuotes # <<>>) =>
        /\ Len(view.value) = 1
        /\ view.value[1] \in Range(HeldQuotes)
        /\ \A q \in Range(HeldQuotes) :
              BucketRank(view.value[1].transfer_time) <= BucketRank(q.transfer_time)
        /\ ~Recognized(view.value[1].transfer_time) =>
              \A q \in Range(HeldQuotes) : ~Recognized(q.transfer_time)

\* An unrecognized bucket first, then the slowest recognized ones.
C6_Witness ==
    /\ view.op = "fastest"
    /\ Len(HeldQuotes) = 3
    /\ ~Recognized(HeldQuotes[1].transfer_time)
    /\ HeldQuotes[2].transfer_time = "days"
    /\ HeldQuotes[3].transfer_time = "1-3 days"
    /\ view.value = <<HeldQuotes[3]>>

\* text.split(", ")
RECURSIVE SplitFrom(_, _)
SplitFrom(text, i) ==
    IF i + 1 > Len(text) THEN <<text>>
    ELSE IF SubSeq(text, i, i + 1) = ", "
         THEN <<SubSeq(text, 1, i - 1)>> \o SplitFrom(SubSeq(text, i + 2, Len(text)), 1)
    ELSE SplitFrom(text, i + 1)

DeliveryList(q) == SplitFrom(q.delivery_method, 1)

WithMPesa == {q \in Range(HeldQuotes) : "M-Pesa" \in Range(DeliveryList(q))}

\* C7: when some quote's delivery list contains M-Pesa, most_trusted returns a
\* quote of minimum true_cost_percent among exactly those quotes; when none
\* does, it returns what best_rate returns.
C7_MostTrustedIsCheapestMPesa ==
    view.op = "most_trusted" =>
        IF WithMPesa # {}
        THEN /\ Len(view.value) = 1
             /\ view.value[1] \in WithMPesa
             /\ \A q \in WithMPesa :
                   true_cost_percent(view.value[1]) <= true_cost_percent(q)
        ELSE view.value = best_rate(result[1])

\* A quote without M-Pesa that is cheaper and pays more than the one returned.
C7_Witness ==
    /\ view.op = "most_trusted"
    /\ WithMPesa # {}
    /\ \E q \in Range(HeldQuotes) \ WithMPesa :
          /\ true_cost_percent(q) < true_cost_percent(view.value[1])
          /\ q.receive_amount > view.value[1].receive_amount

====
